---- MODULE Spec2Model ----
(***************************************************************************)
(* Gating and AI-query aggregation pipeline of the travel chat service:    *)
(* app/controllers/chat_controller.py (the chat handler),                  *)
(* app/services/chat_service.py (intent classifier, query validator,       *)
(* aggregator) and app/services/gemini_service.py (the generator).         *)
(*                                                                         *)
(* Text is modelled as a sequence of lexemes: a word, a punctuation mark   *)
(* or one whitespace character.  A substring test of the code is a test    *)
(* for a contiguous run of lexemes; a word that properly contains another  *)
(* word of the vocabulary is listed in Within.                             *)
(***************************************************************************)
EXTENDS Integers, Sequences, FiniteSets, TLC

VARIABLES
    pc,          \* position of the chat handler
    message,     \* payload.message
    user_id,     \* payload.user_id
    store,       \* the database
    intent,      \* local `intent` of the handler
    evaluated,   \* gates whose condition has been evaluated, in order
    response,    \* the ChatResponse returned, or NoResponse
    genCalls,    \* generator operations invoked so far
    executed,    \* statements handed to db.execute by the aggregator
    agg,         \* locals of build_ai_aggregate
    gemini,      \* GeminiService._initialized, the key given to genai.configure,
                 \* settings.google_api_key, fate of the last generate_content call of
                 \* generate_sql_queries
    sql,         \* candidate query under the validator
    verdict,     \* result of the validator on sql
    first,       \* gate decision and audit keys of the previous run on the same request
    context_chunks, \* context_chunks handed to GeminiService.answer_with_context
    init_pc,     \* position of each concurrent caller inside GeminiService._ensure_init
    fetched      \* rows returned by each executed statement, -1 when the execution raised

vars ==
    <<pc, message, user_id, store, intent, evaluated, response, genCalls, executed, agg, gemini,
      sql, verdict, first, context_chunks, init_pc, fetched>>

None == "None"

\* ---------------------------------------------------------------- bounds
MaxMsgParts == 2
MaxPieces == 2
MaxQueries == 2
MaxHandlerQueries == 1
MaxCallers == 3

\* ------------------------------------------------------------------ text
Whitespace == {" ", "\n"}

\* str.lower() on one lexeme of the vocabulary
LowerLexeme(x) ==
    CASE x = "Token" -> "token"
      [] x = "SELECT" -> "select"
      [] x = "FROM" -> "from"
      [] x = "WHERE" -> "where"
      [] x = "DELETE" -> "delete"
      [] x = "Users" -> "users"
      [] x = "TG-ABC123" -> "tg-abc123"
      [] x = "TG-XYZ789" -> "tg-xyz789"
      [] x = "WELCOME200" -> "welcome200"
      [] x = "HEMAT50" -> "hemat50"
      [] OTHER -> x

lower(t) == [i \in 1..Len(t) |-> LowerLexeme(t[i])]

\* <<w, k>>: the word w has the word k as a proper substring
Within == { <<"pesananku", "pesanan">>, <<"trips", "trip">>, <<"promos", "promo">> }

HasWord(w, k) == w = k \/ <<w, k>> \in Within

\* `pat in t` for a pattern of lexemes
Contains(t, pat) ==
    \E i \in 1..(Len(t) - Len(pat) + 1) :
        IF Len(pat) = 1
        THEN HasWord(t[i], pat[1])
        ELSE \A j \in 1..Len(pat) : t[i + j - 1] = pat[j]

ContainsAny(t, pats) == \E p \in pats : Contains(t, p)

RECURSIVE lstrip(_)
lstrip(t) == IF t # <<>> /\ Head(t) \in Whitespace THEN lstrip(Tail(t)) ELSE t

RECURSIVE rstrip(_)
rstrip(t) ==
    IF t # <<>> /\ t[Len(t)] \in Whitespace THEN rstrip(SubSeq(t, 1, Len(t) - 1)) ELSE t

strip(t) == rstrip(lstrip(t))

\* ---------------------------------------------------------------- lexicon
ALLOWED_PUBLIC_TOPICS ==
    { <<"trip">>, <<"trips">>, <<"jadwal">>, <<"schedule">>, <<"promo">>, <<"promosi">>,
      <<"diskon">>, <<"blog">>, <<"artikel">> }

ALLOWED_PRIVATE_TOPICS ==
    { <<"booking">>, <<"pesanan">>, <<"pesananku">>, <<"booking", " ", "saya">>,
      <<"riwayat">>, <<"history">> }

SENSITIVE_KEYWORDS ==
    { <<"password">>, <<"kata", " ", "sandi">>, <<"token">>, <<"apikey">>,
      <<"api", " ", "key">> }

classify_intent_private_first(m) ==
    LET msg == lower(m) IN
    IF ContainsAny(msg, ALLOWED_PRIVATE_TOPICS) THEN "private"
    ELSE IF ContainsAny(msg, SENSITIVE_KEYWORDS) THEN "sensitive"
    ELSE IF ContainsAny(msg, ALLOWED_PUBLIC_TOPICS) THEN "public"
    ELSE "unknown"

\* the classifier with the public topics tested before the private ones
classify_intent_public_first(m) ==
    LET msg == lower(m) IN
    IF ContainsAny(msg, SENSITIVE_KEYWORDS) THEN "sensitive"
    ELSE IF ContainsAny(msg, ALLOWED_PUBLIC_TOPICS) THEN "public"
    ELSE IF ContainsAny(msg, ALLOWED_PRIVATE_TOPICS) THEN "private"
    ELSE "unknown"

classify_intent(m) ==
    LET msg == lower(m) IN
    IF ContainsAny(msg, SENSITIVE_KEYWORDS) THEN "sensitive"
    ELSE IF ContainsAny(msg, ALLOWED_PRIVATE_TOPICS) THEN "private"
    ELSE IF ContainsAny(msg, ALLOWED_PUBLIC_TOPICS) THEN "public"
    ELSE "unknown"

\* --------------------------------------------------------------- messages
\* The phrases a message is built from, joined by single spaces.
Phrases ==
    { <<"Token">>, <<"kata", " ", "sandi">>, <<"booking">>, <<"pesananku">>, <<"promo">>,
      <<"halo">>, <<"database">>, <<"email">>, <<"pembayaran">>, <<"tips">>,
      <<"TG-ABC123">>, <<"TG-XYZ789">>, <<"status", " ", "booking", " ", "TG-ABC123">>,
      <<"cek", " ", "promo">>, <<"detail", " ", "trip">>, <<"detail", " ", "artikel">>,
      <<"detail", " ", "kategori">>, <<"detail", " ", "tag">>, <<"detail", " ", "jadwal">>,
      <<"detail", " ", "review">>,
      <<"WELCOME200">>, <<"HEMAT50">>, <<"raja-ampat">>, <<"labuan-bajo">>, <<"#5">>, <<"#9">> }

RECURSIVE JoinParts(_)
JoinParts(ps) ==
    IF ps = <<>> THEN <<>>
    ELSE IF Len(ps) = 1 THEN ps[1]
    ELSE ps[1] \o <<" ">> \o JoinParts(Tail(ps))

Messages == { JoinParts(ps) : ps \in UNION { [1..n -> Phrases] : n \in 0..MaxMsgParts } }

\* ------------------------------------------------------------------ store
ALLOWED_AI_TABLES ==
    { "promos", "trips", "blogs", "trip_schedules", "trip_facilities", "trip_itineraries",
      "reviews" }

AllTables == ALLOWED_AI_TABLES \cup { "users", "bookings", "categories", "tags" }

\* The rows of the database when the service starts; bookings are listed newest first.
InitialStore ==
    [ t \in AllTables |->
        CASE t = "promos" ->
               << [ name |-> "Promo Welcome", promo_code |-> "WELCOME200",
                    start_date |-> "2025-01-01", end_date |-> "2025-12-31", is_active |-> "1" ],
                  [ name |-> "Promo Flash", promo_code |-> None,
                    start_date |-> None, end_date |-> "2025-06-30", is_active |-> "1" ],
                  [ name |-> "Promo Akhir Tahun", promo_code |-> None,
                    start_date |-> "2025-12-01", end_date |-> "2025-12-31", is_active |-> "1" ] >>
          [] t = "trips" ->
               << [ id |-> "5", name |-> "Raja Ampat", slug |-> "raja-ampat",
                    location |-> "Papua", duration |-> "4D3N", price |-> "900",
                    status |-> "published", is_active |-> "1" ] >>
          [] t = "blogs" -> << [ slug |-> "labuan-bajo", title |-> "Labuan Bajo" ] >>
          [] t = "categories" -> << [ slug |-> "labuan-bajo" ] >>
          [] t = "tags" -> << [ slug |-> "raja-ampat" ] >>
          [] t = "reviews" -> << [ id |-> "5", trip_id |-> "5", rating |-> "4" ] >>
          [] t = "users" ->
               << [ email |-> "budi@mail", name |-> "Budi" ],
                  [ email |-> "ani@mail", name |-> "Ani" ],
                  [ email |-> "admin", name |-> "Admin" ] >>
          [] t = "bookings" ->
               << [ booking_code |-> "TG-XYZ789", customer_email |-> "budi@mail",
                    trip |-> "Raja Ampat" ],
                  [ booking_code |-> "TG-ADM001", customer_email |-> "admin", trip |-> None ],
                  [ booking_code |-> "TG-QRS456", customer_email |-> "budi@mail",
                    trip |-> None ] >>
          [] OTHER -> << >> ]

\* SELECT 1 FROM <table> WHERE <field> = :v LIMIT 1 ... fetchone() is not None
RowExists(st, table, field, v) == \E i \in 1..Len(st[table]) : st[table][i][field] = v

\* ------------------------------------------- helpers of the gating pipeline
\* first lexeme of t that lies in S, or None
FirstIn(t, S) ==
    LET idx == { i \in 1..Len(t) : t[i] \in S } IN
    IF idx = {} THEN None ELSE t[CHOOSE i \in idx : \A j \in idx : i <= j]

BookingCodeShaped == { "TG-ABC123", "TG-XYZ789" }
PromoCodeShaped == { "WELCOME200", "HEMAT50" }
SlugShaped == { "raja-ampat", "labuan-bajo" }
IdShaped == { "#5", "#9" }

\* the digits of a "#<digits>" lexeme
IdOf(x) == CASE x = "#5" -> "5" [] x = "#9" -> "9" [] OTHER -> None

is_internal_data_request(m) == Contains(lower(m), <<"database">>)

is_pure_greeting(m) ==
    /\ m # <<>>
    /\ \A i \in 1..Len(m) : m[i] \in Whitespace \/ LowerLexeme(m[i]) = "halo"

build_greeting_reply == <<"Halo! Ada yang bisa saya bantu seputar trip, promo, atau booking Anda?">>

is_pii_lookup(m) == ContainsAny(lower(m), { <<"nama">>, <<"email">>, <<"telepon">> })

_extract_booking_code(m, hint) == IF hint # None THEN hint ELSE FirstIn(m, BookingCodeShaped)

needs_promo_identifier(m) == Contains(lower(m), <<"cek", " ", "promo">>)
needs_trip_identifier(m) == Contains(lower(m), <<"detail", " ", "trip">>)
needs_blog_identifier(m) == Contains(lower(m), <<"detail", " ", "artikel">>)
needs_category_identifier(m) == Contains(lower(m), <<"detail", " ", "kategori">>)
needs_tag_identifier(m) == Contains(lower(m), <<"detail", " ", "tag">>)
needs_schedule_identifier(m) == Contains(lower(m), <<"detail", " ", "jadwal">>)
needs_review_identifier(m) == Contains(lower(m), <<"detail", " ", "review">>)

_extract_promo_code(db, m) == FirstIn(m, PromoCodeShaped)

\* <<slug, trip_id>>; a trip id is returned only when the trip exists
_extract_trip_slug_or_id(db, m) ==
    LET id == IdOf(FirstIn(m, IdShaped)) IN
    << FirstIn(m, SlugShaped),
       IF id # None /\ RowExists(db, "trips", "id", id) THEN id ELSE None >>

_extract_blog_slug(db, m) == FirstIn(m, SlugShaped)
_extract_category_slug(db, m) == FirstIn(m, SlugShaped)
_extract_tag_slug(db, m) == FirstIn(m, SlugShaped)
_extract_review_id(db, m) == IdOf(FirstIn(m, IdShaped))

is_private_topic(m) ==
    ContainsAny(lower(m), ALLOWED_PRIVATE_TOPICS \cup { <<"pembayaran">> })

detect_private_subintent(m) ==
    IF Contains(lower(m), <<"pembayaran">>) THEN "payment_status"
    ELSE IF Contains(lower(m), <<"detail">>) THEN "booking_detail"
    ELSE "generic"

OnThemeWords ==
    ALLOWED_PUBLIC_TOPICS \cup ALLOWED_PRIVATE_TOPICS
        \cup { <<"pembayaran">>, <<"tips">>, <<"review">>, <<"kategori">>, <<"tag">> }

is_on_theme(m) == ContainsAny(lower(m), OnThemeWords)

is_thematic_allowed(m) == Contains(lower(m), <<"tips">>)

\* ------------------------------------------------------------- ChatResponse
NoResponse == [ reply |-> None ]

NoCollections == [ t \in AllTables |-> << >> ]

ChatResponseFull(reply, keys, actions, trips, bookings, promos, queries, summary, collections) ==
    [ reply |-> reply, used_context_keys |-> keys, suggested_actions |-> actions,
      related_trips |-> trips, user_bookings |-> bookings, related_promos |-> promos,
      generated_queries |-> queries, summary |-> summary, related_collections |-> collections ]

\* ChatResponse(reply=..., used_context_keys=...): every other field takes its default
\* ChatResponse with rows of the store attached
ChatResponseWithContext(reply, keys) ==
    ChatResponseFull(reply, keys, << >>, << >>, << >>, << >>, << >>, None, InitialStore)

ChatResponse(reply, keys) ==
    ChatResponseFull(reply, keys, << >>, << >>, << >>, << >>, << >>, None, NoCollections)

ChatRequestBookingCode == None

\* requests that may be inside GeminiService._ensure_init at the same time
Callers == 1..MaxCallers

\* no request is inside _ensure_init
NoCallers == [ c \in Callers |-> "out" ]

\* values of ChatRequest.user_id: absent, or the id of a logged-in caller
UserIds == { None, "7" }

\* ---------------------------------------------------------- query validator
NotIdentifier == Whitespace \cup { ",", ";", "--", "/*", "*/", "(", ")", "*", "=", "1" }

\* [a-zA-Z_][a-zA-Z0-9_]* matches the lexeme
IsIdentifier(x) == x \notin NotIdentifier

\* index of the first lexeme at or after i that is not whitespace (Len(t) + 1 if none)
RECURSIVE SkipWhitespace(_, _)
SkipWhitespace(t, i) ==
    IF i <= Len(t) /\ t[i] \in Whitespace THEN SkipWhitespace(t, i + 1) ELSE i

\* positions i where \b<kw>\s+(identifier) matches, with the identifier's position
KeywordMatches(t, kw) ==
    { i \in 1..Len(t) :
        /\ t[i] = kw
        /\ (i = 1 \/ ~IsIdentifier(t[i - 1]))
        /\ i + 1 <= Len(t) /\ t[i + 1] \in Whitespace
        /\ SkipWhitespace(t, i + 1) <= Len(t)
        /\ IsIdentifier(t[SkipWhitespace(t, i + 1)]) }

Captured(t, i) == t[SkipWhitespace(t, i + 1)]

_extract_tables_in_sql(q) ==
    LET l == lower(q) IN
    { Captured(l, i) : i \in KeywordMatches(l, "from") }
        \cup { Captured(l, i) : i \in KeywordMatches(l, "join") }

BlockedKeywords ==
    { "update", "insert", "delete", "drop", "alter", "truncate", "create", "grant", "revoke" }

_is_select_only(q) ==
    LET l == lower(strip(q)) IN
    IF Contains(l, <<";">>) THEN FALSE
    ELSE IF \E b \in BlockedKeywords : Contains(l, <<b, " ">>) THEN FALSE
    ELSE IF Contains(l, <<"--">>) \/ Contains(l, <<"/*">>) \/ Contains(l, <<"*/">>) THEN FALSE
    ELSE (l # << >> /\ l[1] = "select") \/ (Len(l) >= 2 /\ l[1] = "with" /\ l[2] = " ")

\* the whitelist test without the test that a table was found
_is_whitelisted_tables_subset_only(q, allowed) ==
    LET tables == _extract_tables_in_sql(q) IN tables \subseteq allowed

_is_whitelisted_tables(q, allowed) ==
    LET tables == _extract_tables_in_sql(q) IN tables # {} /\ tables \subseteq allowed

_guess_main_table(q) ==
    LET l == lower(q)
        ms == KeywordMatches(l, "from")
    IN  IF ms = {} THEN None ELSE Captured(l, CHOOSE i \in ms : \A j \in ms : i <= j)

\* The candidate queries the validator is tried on: a head followed by pieces.
Heads == { <<"select">>, <<"SELECT">>, <<"with">>, <<"delete">>, <<" ", "select">> }

Pieces ==
    { <<" ", "from", " ", "trips">>, <<" ", "from", " ", "users">>,
      <<"\n", "FROM", "\n", "promos">>, <<",", "users">>,
      <<" ", "join", " ", "bookings">>, <<" ", "join", " ", "reviews">>,
      <<" ", "from", " ", "(", "users", ")">>,
      <<";">>, <<" ", "--">>, <<" ", "delete">>, <<"\n", "update">>, <<" ", "1">> }

RECURSIVE Concat(_)
Concat(ps) == IF ps = << >> THEN << >> ELSE ps[1] \o Concat(Tail(ps))

Queries ==
    { h \o Concat(ps) : h \in Heads, ps \in UNION { [1..n -> Pieces] : n \in 0..MaxPieces } }

\* the validator without the table whitelist
ValidateSelectOnly(q) ==
    LET q_str == strip(q) IN q_str # << >> /\ _is_select_only(q_str)

\* validator as build_ai_aggregate applies it to one candidate
Validate(q) ==
    LET q_str == strip(q) IN
    /\ q_str # << >>
    /\ _is_select_only(q_str)
    /\ _is_whitelisted_tables(q_str, ALLOWED_AI_TABLES)

\* ------------------------------------------------------------- the database
\* table a row-deleting statement removes rows from, or None: DELETE FROM <table>,
\* alone or after a WITH clause
DeleteTarget(q) ==
    LET l == lower(strip(q))
        hits == { i \in 1..Len(l) :
                    /\ l[i] = "delete"
                    /\ i + 1 <= Len(l) /\ l[i + 1] \in Whitespace
                    /\ SkipWhitespace(l, i + 1) \in KeywordMatches(l, "from")
                    /\ Captured(l, SkipWhitespace(l, i + 1)) \in AllTables }
    IN  IF l # << >> /\ l[1] \in { "with", "delete" } /\ hits # {}
        THEN Captured(l, SkipWhitespace(l, (CHOOSE i \in hits : \A j \in hits : i <= j) + 1))
        ELSE None

IsWriteStatement(q) == DeleteTarget(q) # None

\* db.execute(text(q)).mappings().all(): what the database may answer.  A row-returning
\* statement yields the first k rows of its main table, or the call raises; a DELETE
\* removes the rows and then raises, because its result returns no rows.
ExecuteOutcomes(st, q) ==
    LET mt == _guess_main_table(q)
        failed == [ raised |-> TRUE, rows |-> << >>, store |-> st ]
    IN  IF IsWriteStatement(q)
        THEN { failed,
               [ raised |-> TRUE, rows |-> << >>,
                 store |-> [ st EXCEPT ![DeleteTarget(q)] = << >> ] ] }
        ELSE { failed }
             \cup { [ raised |-> FALSE, rows |-> SubSeq(st[mt], 1, k), store |-> st ] :
                      k \in IF mt \in AllTables THEN 0..Len(st[mt]) ELSE {} }
             \cup IF mt \in AllTables THEN {}
                  ELSE { [ raised |-> FALSE, rows |-> << >>, store |-> st ] }

\* ---------------------------------------------------------------- generator
EnsureInitRaises(g) == ~g.initialized /\ g.api_key = ""

_ensure_init(g) ==
    IF EnsureInitRaises(g) THEN g
    ELSE IF g.initialized THEN g
    ELSE [ g EXCEPT !.configured = g.api_key, !.initialized = TRUE ]

PromoFallbackSql ==
    <<"SELECT", " ", "name", " ", "FROM", " ", "promos", " ", "WHERE", " ", "is_active">>

TripFallbackSql ==
    <<"SELECT", " ", "id", " ", "FROM", " ", "trips", " ", "WHERE", " ", "is_active">>

\* the heuristic list generate_sql_queries returns when the model call or the parse fails
Fallbacks(m) ==
    LET msg == lower(m) IN
    (IF Contains(msg, <<"promo">>) THEN <<PromoFallbackSql>> ELSE << >>)
        \o (IF ContainsAny(msg, { <<"trip">>, <<"trips">>, <<"jadwal">>, <<"schedule">>,
                                  <<"bali">>, <<"labuan">>, <<"raja", " ", "amp">> })
            THEN <<TripFallbackSql>> ELSE << >>)

\* queries the model may answer with
SampleQueries ==
    { <<"select", " ", "*", " ", "from", " ", "trips">>,
      <<"SELECT", " ", "name", " ", "FROM", " ", "promos">>,
      <<"select", " ", "*", " ", "from", " ", "reviews">>,
      <<"select", " ", "*", " ", "from", " ", "users">>,
      <<"select", " ", "*", " ", "from", " ", "trips", ",", "users">>,
      <<"select", " ", "*", " ", "from", " ", "trips", ";">>,
      <<"delete", " ", "from", " ", "trips">>,
      <<"with", " ", "x", " ", "as", " ", "(", "select", " ", "1", ")", " ",
        "delete", "\n", "from", " ", "trips">>,
      <<"select", " ", "1">>,
      <<" ">> }

HandlerSamples ==
    { <<"select", " ", "*", " ", "from", " ", "trips">>,
      <<"select", " ", "*", " ", "from", " ", "users">> }

Batches(S, n) == UNION { [1..k -> S] : k \in 0..n }

\* the parse of the model's answer: each "sql" item stripped, blank items dropped
ParsedQueries(items) ==
    LET NotBlank(q) == q # << >> IN
    SelectSeq([ k \in 1..Len(items) |-> strip(items[k]) ], NotBlank)

\* what generate_sql_queries may return once the client is initialised: the parsed
\* answer of the model, or the fallback list when the call or the parse raised
generate_sql_queries(m, caller) ==
    { [ failed |-> TRUE, queries |-> Fallbacks(m) ] }
        \cup { [ failed |-> FALSE, queries |-> ParsedQueries(b) ] :
                 b \in IF caller = "chat" THEN Batches(HandlerSamples, MaxHandlerQueries)
                       ELSE Batches(SampleQueries, MaxQueries) }

\* ---------------------------------------------------------------- aggregator
Get(r, f) == IF f \in DOMAIN r THEN r[f] ELSE None

CanMap(r, required) == \A f \in required : f \in DOMAIN r /\ r[f] # None

PromoSummaryRequired == { "name", "start_date", "end_date", "is_active" }

PromoSummary(r) ==
    [ name |-> r.name, promo_code |-> Get(r, "promo_code"), start_date |-> r.start_date,
      end_date |-> r.end_date, is_active |-> r.is_active ]

TripResponseRequired ==
    { "name", "slug", "location", "duration", "price", "id", "status", "is_active" }

TripResponse(r) ==
    [ id |-> r.id, name |-> r.name, slug |-> r.slug, location |-> r.location,
      duration |-> r.duration, price |-> r.price, status |-> r.status,
      is_active |-> r.is_active ]

\* EmailStr accepts the value
IsEmail(x) == x \in { "budi@mail", "ani@mail" }

BookingResponseValid(b) == IsEmail(b.customer_email)

BookingResponse(b) == [ booking_code |-> b.booking_code, customer_email |-> b.customer_email ]

\* the mapping with one try around the whole batch: a row that fails drops every row
MapRowsAllOrNothing(rows, kind) ==
    LET required == IF kind = "promos" THEN PromoSummaryRequired ELSE TripResponseRequired IN
    IF \A k \in 1..Len(rows) : CanMap(rows[k], required)
    THEN [ k \in 1..Len(rows) |->
             IF kind = "promos" THEN PromoSummary(rows[k]) ELSE TripResponse(rows[k]) ]
    ELSE << >>

RECURSIVE MapRows(_, _)
\* [f(r) for r in rows if f accepts r], f being PromoSummary or TripResponse
MapRows(rows, kind) ==
    IF rows = << >> THEN << >>
    ELSE LET r == Head(rows)
             rest == MapRows(Tail(rows), kind)
         IN  IF kind = "promos"
             THEN (IF CanMap(r, PromoSummaryRequired) THEN <<PromoSummary(r)>> ELSE << >>) \o rest
             ELSE (IF CanMap(r, TripResponseRequired) THEN <<TripResponse(r)>> ELSE << >>) \o rest

PromoChunk(r) ==
    IF Get(r, "promo_code") # None
    THEN [ text |-> "Promo: {name} (kode {code})", name |-> Get(r, "name"),
           code |-> Get(r, "promo_code") ]
    ELSE [ text |-> "Promo: {name}", name |-> Get(r, "name") ]

TripChunk(r) ==
    [ text |-> "Trip: {name} ({loc}), harga {price}", name |-> Get(r, "name"),
      loc |-> Get(r, "location"), price |-> Get(r, "price") ]

RowChunk(r) == [ text |-> "{k}:{v} | ...", row |-> r ]

BookingChunk(b) ==
    [ text |-> "Booking {booking_code}: trip {trip_name}, ...", booking_code |-> b.booking_code,
      trip_name |-> IF b.trip # None THEN b.trip ELSE "-" ]

BookingLimit == 10

Take(s, n) == SubSeq(s, 1, IF Len(s) < n THEN Len(s) ELSE n)

get_user_recent_bookings(db, user, limit) ==
    LET Mine(b) == b.customer_email = user.email IN Take(SelectSeq(db["bookings"], Mine), limit)

\* user=None
NoUser == [ email |-> None, name |-> None ]

Users == { NoUser } \cup { InitialStore["users"][i] : i \in 1..Len(InitialStore["users"]) }

\* the aggregation called with the first user of the store
HandlerUserFromStore == InitialStore["users"][1]

\* user=None in the handler's call of build_ai_aggregate
HandlerUser == NoUser

EmptyAgg(user, caller) ==
    [ caller |-> caller, user |-> user, ai_queries |-> << >>, i |-> 1,
      chunks |-> << >>, used_keys |-> << >>, generated_queries |-> << >>,
      related_promos |-> << >>, related_trips |-> << >>, user_bookings |-> << >>,
      related_collections |-> NoCollections ]

\* no earlier run of the request
NoRun ==
    [ decision |-> None, returned |-> FALSE, keys |-> << >>, agg |-> EmptyAgg(NoUser, "chat") ]

\* f"{main_table}.ai"
AiKey(t) ==
    CASE t = "blogs" -> "blogs.ai"
      [] t = "trip_schedules" -> "trip_schedules.ai"
      [] t = "trip_facilities" -> "trip_facilities.ai"
      [] t = "trip_itineraries" -> "trip_itineraries.ai"
      [] t = "reviews" -> "reviews.ai"
      [] t = "users" -> "users.ai"
      [] t = "bookings" -> "bookings.ai"
      [] t = "categories" -> "categories.ai"
      [] t = "tags" -> "tags.ai"
      [] OTHER -> "other.ai"

\* the loop body listing a statement only when it returned rows
FoldRowsSkipEmpty(a, q_str, rows) ==
    LET main_table == _guess_main_table(q_str)
        a1 == [ a EXCEPT !.generated_queries = Append(@, q_str) ]
        a2 == IF main_table \in AllTables
              THEN [ a1 EXCEPT !.related_collections[main_table] = @ \o rows ]
              ELSE a1
    IN  IF rows = << >> THEN a
        ELSE IF main_table = "promos"
        THEN [ a2 EXCEPT !.related_promos = @ \o MapRows(rows, "promos"),
                         !.chunks = @ \o [ k \in 1..Len(rows) |-> PromoChunk(rows[k]) ],
                         !.used_keys = Append(@, "promos.ai") ]
        ELSE IF main_table = "trips"
        THEN [ a2 EXCEPT !.related_trips = @ \o MapRows(rows, "trips"),
                         !.chunks = @ \o [ k \in 1..Len(rows) |-> TripChunk(rows[k]) ],
                         !.used_keys = Append(@, "trips.ai") ]
        ELSE [ a2 EXCEPT !.chunks = @ \o [ k \in 1..Len(rows) |-> RowChunk(rows[k]) ],
                         !.used_keys = IF main_table # None
                                       THEN Append(@, AiKey(main_table)) ELSE @ ]

\* body of the loop for one executed query that returned `rows`
FoldRows(a, q_str, rows) ==
    LET main_table == _guess_main_table(q_str)
        a1 == [ a EXCEPT !.generated_queries = Append(@, q_str) ]
        a2 == IF main_table \in AllTables
              THEN [ a1 EXCEPT !.related_collections[main_table] = @ \o rows ]
              ELSE a1
    IN  IF rows = << >> THEN a1
        ELSE IF main_table = "promos"
        THEN [ a2 EXCEPT !.related_promos = @ \o MapRows(rows, "promos"),
                         !.chunks = @ \o [ k \in 1..Len(rows) |-> PromoChunk(rows[k]) ],
                         !.used_keys = Append(@, "promos.ai") ]
        ELSE IF main_table = "trips"
        THEN [ a2 EXCEPT !.related_trips = @ \o MapRows(rows, "trips"),
                         !.chunks = @ \o [ k \in 1..Len(rows) |-> TripChunk(rows[k]) ],
                         !.used_keys = Append(@, "trips.ai") ]
        ELSE [ a2 EXCEPT !.chunks = @ \o [ k \in 1..Len(rows) |-> RowChunk(rows[k]) ],
                         !.used_keys = IF main_table # None
                                       THEN Append(@, AiKey(main_table)) ELSE @ ]

\* step 3 without the test of the intent
PrivateContextAnyIntent(a, m, db) ==
    IF a.user # NoUser
    THEN LET bookings == get_user_recent_bookings(db, a.user, BookingLimit) IN
         IF \A k \in 1..Len(bookings) : BookingResponseValid(bookings[k])
         THEN [ a EXCEPT !.user_bookings = [ k \in 1..Len(bookings) |-> BookingResponse(bookings[k]) ],
                         !.chunks = @ \o [ k \in 1..Len(bookings) |-> BookingChunk(bookings[k]) ],
                         !.used_keys = Append(@, "bookings.mine.latest10") ]
         ELSE a
    ELSE a

\* step 3 of build_ai_aggregate: the caller's recent bookings
PrivateContext(a, m, db) ==
    IF classify_intent(m) = "private" /\ a.user # NoUser
    THEN LET bookings == get_user_recent_bookings(db, a.user, BookingLimit) IN
         IF \A k \in 1..Len(bookings) : BookingResponseValid(bookings[k])
         THEN [ a EXCEPT !.user_bookings = [ k \in 1..Len(bookings) |-> BookingResponse(bookings[k]) ],
                         !.chunks = @ \o [ k \in 1..Len(bookings) |-> BookingChunk(bookings[k]) ],
                         !.used_keys = Append(@, "bookings.mine.latest10") ]
         ELSE a
    ELSE a

\* ------------------------------------------------------ build_ai_aggregate
\* step 1: ask the generator for candidate queries
AggStart ==
    /\ pc = "agg_start"
    /\ genCalls' = Append(genCalls, "generate_sql_queries")
    /\ IF EnsureInitRaises(gemini)
       THEN /\ pc' = "raised"
            /\ UNCHANGED <<agg, gemini>>
       ELSE /\ \E r \in generate_sql_queries(message, agg.caller) :
                   /\ agg' = [ agg EXCEPT !.ai_queries = r.queries ]
                   /\ gemini' = [ _ensure_init(gemini) EXCEPT
                                    !.proposal = IF r.failed THEN "failed" ELSE "answered" ]
            /\ pc' = "agg_loop"
    /\ UNCHANGED <<message, user_id, store, intent, evaluated, response, executed, sql, verdict,
                   first, context_chunks, init_pc, fetched>>

\* the loop with one try around it: the first query that raises ends the batch
AggStepAbortOnError ==
    /\ pc = "agg_loop"
    /\ agg.i <= Len(agg.ai_queries)
    /\ LET q == agg.ai_queries[agg.i]
           q_str == strip(q)
           next == [ agg EXCEPT !.i = @ + 1 ]
       IN  IF ~Validate(q)
           THEN /\ agg' = next
                /\ UNCHANGED <<store, executed, fetched>>
           ELSE \E o \in ExecuteOutcomes(store, q_str) :
                    /\ executed' = Append(executed, q_str)
                    /\ fetched' = Append(fetched, IF o.raised THEN -1 ELSE Len(o.rows))
                    /\ store' = o.store
                    /\ agg' = IF o.raised THEN [ agg EXCEPT !.i = Len(agg.ai_queries) + 1 ]
                              ELSE FoldRows(next, q_str, o.rows)
    /\ UNCHANGED <<pc, message, user_id, intent, evaluated, response, genCalls, gemini, sql,
                   verdict,
                   first, context_chunks, init_pc>>

\* step 2: one iteration of `for q in ai_queries`
AggStep ==
    /\ pc = "agg_loop"
    /\ agg.i <= Len(agg.ai_queries)
    /\ LET q == agg.ai_queries[agg.i]
           q_str == strip(q)
           next == [ agg EXCEPT !.i = @ + 1 ]
       IN  IF ~Validate(q)
           THEN /\ agg' = next
                /\ UNCHANGED <<store, executed, fetched>>
           ELSE \E o \in ExecuteOutcomes(store, q_str) :
                    /\ executed' = Append(executed, q_str)
                    /\ fetched' = Append(fetched, IF o.raised THEN -1 ELSE Len(o.rows))
                    /\ store' = o.store
                    /\ agg' = IF o.raised THEN next ELSE FoldRows(next, q_str, o.rows)
    /\ UNCHANGED <<pc, message, user_id, intent, evaluated, response, genCalls, gemini, sql,
                   verdict,
                   first, context_chunks, init_pc>>

\* step 3 and the return
AggFinish ==
    /\ pc = "agg_loop"
    /\ agg.i > Len(agg.ai_queries)
    /\ agg' = PrivateContext(agg, message, store)
    /\ pc' = IF agg.caller = "chat" THEN "compose" ELSE "agg_done"
    /\ UNCHANGED <<message, user_id, store, intent, evaluated, response, genCalls, executed, gemini,
                   sql, verdict, first, context_chunks, init_pc, fetched>>

\* ------------------------------------------------------------ chat handler
GateOrderSwapped ==
    << "sensitive", "pii", "greeting", "internal", "promo", "trip", "blog", "category", "tag",
       "schedule", "review", "private", "theme" >>

GateOrder ==
    << "sensitive", "internal", "greeting", "pii", "promo", "trip", "blog", "category", "tag",
       "schedule", "review", "private", "theme" >>

\* where control falls through to after gate g
After(g) ==
    LET k == CHOOSE i \in 1..Len(GateOrder) : GateOrder[i] = g IN
    IF k = Len(GateOrder) THEN "agg_start" ELSE GateOrder[k + 1]

Return(r) == response' = r /\ pc' = "done"

FallThrough(g) == pc' = After(g) /\ UNCHANGED response

GateFrame == UNCHANGED <<message, user_id, store, genCalls, executed, agg, gemini, sql, verdict,
                         first, context_chunks, init_pc, fetched>>

Receive ==
    /\ pc = "idle"
    /\ message' \in Messages
    /\ user_id' \in UserIds
    /\ pc' = GateOrder[1]
    /\ UNCHANGED <<store, intent, evaluated, response, genCalls, executed, agg, gemini, sql,
                   verdict, first, context_chunks, init_pc, fetched>>

SensitiveReply == <<"Akses ditolak. Jangan meminta data sensitif seperti password atau token.">>

GateSensitive ==
    /\ pc = "sensitive"
    /\ intent' = classify_intent(message)
    /\ evaluated' = Append(evaluated, "sensitive")
    /\ IF intent' = "sensitive"
       THEN Return(ChatResponse(SensitiveReply, << >>))
       ELSE FallThrough("sensitive")
    /\ GateFrame

GateInternal ==
    /\ pc = "internal"
    /\ evaluated' = Append(evaluated, "internal")
    /\ IF is_internal_data_request(message)
       THEN Return(ChatResponse(<<"Data internal sistem tidak dapat diakses.">>, << >>))
       ELSE FallThrough("internal")
    /\ UNCHANGED intent /\ GateFrame

\* the greeting gate answering without an audit key
GateGreetingNoKey ==
    /\ pc = "greeting"
    /\ evaluated' = Append(evaluated, "greeting")
    /\ IF is_pure_greeting(message)
       THEN Return(ChatResponse(build_greeting_reply, << >>))
       ELSE FallThrough("greeting")
    /\ UNCHANGED intent /\ GateFrame

GateGreeting ==
    /\ pc = "greeting"
    /\ evaluated' = Append(evaluated, "greeting")
    /\ IF is_pure_greeting(message)
       THEN Return(ChatResponse(build_greeting_reply, <<"greeting">>))
       ELSE FallThrough("greeting")
    /\ UNCHANGED intent /\ GateFrame

PiiReply ==
    <<"Demi privasi, pencarian berdasarkan nama/email/telepon tidak diizinkan. Untuk pemeriksaan, gunakan KODE BOOKING (mis. TG-ABC123).">>

\* the PII gate applied to anonymous callers only
GatePiiAnonymousOnly ==
    /\ pc = "pii"
    /\ evaluated' = Append(evaluated, "pii")
    /\ IF is_pii_lookup(message)
          /\ _extract_booking_code(message, ChatRequestBookingCode) = None
          /\ user_id = None
       THEN Return(ChatResponse(PiiReply, << >>))
       ELSE FallThrough("pii")
    /\ UNCHANGED intent /\ GateFrame

GatePii ==
    /\ pc = "pii"
    /\ evaluated' = Append(evaluated, "pii")
    /\ IF is_pii_lookup(message)
          /\ _extract_booking_code(message, ChatRequestBookingCode) = None
       THEN Return(ChatResponse(PiiReply, << >>))
       ELSE FallThrough("pii")
    /\ UNCHANGED intent /\ GateFrame

GatePromo ==
    /\ pc = "promo"
    /\ evaluated' = Append(evaluated, "promo")
    /\ LET promo_code == _extract_promo_code(store, message) IN
       IF ~needs_promo_identifier(message) THEN FallThrough("promo")
       ELSE IF promo_code = None
       THEN Return(ChatResponse(
                <<"Untuk memeriksa promo spesifik, sebutkan KODE PROMO (mis. WELCOME200).">>, << >>))
       ELSE IF ~RowExists(store, "promos", "promo_code", promo_code)
       THEN Return(ChatResponse(
                <<"Kode promo ", promo_code, " tidak ditemukan. Periksa ejaan atau gunakan kode lain.">>,
                <<"promos.by_code">>))
       ELSE FallThrough("promo")
    /\ UNCHANGED intent /\ GateFrame

GateTrip ==
    /\ pc = "trip"
    /\ evaluated' = Append(evaluated, "trip")
    /\ LET slug == _extract_trip_slug_or_id(store, message)[1]
           trip_id == _extract_trip_slug_or_id(store, message)[2]
       IN  IF ~needs_trip_identifier(message) THEN FallThrough("trip")
           ELSE IF slug = None /\ trip_id = None
           THEN Return(ChatResponse(
                    <<"Untuk melihat status/detail trip, sebutkan ID atau SLUG trip (mis. 'raja-ampat-diving-paradise').">>,
                    << >>))
           ELSE IF slug # None /\ ~RowExists(store, "trips", "slug", slug)
           THEN Return(ChatResponse(<<"Trip '", slug, "' tidak ditemukan.">>, <<"trips.by_slug">>))
           ELSE FallThrough("trip")
    /\ UNCHANGED intent /\ GateFrame

GateBlog ==
    /\ pc = "blog"
    /\ evaluated' = Append(evaluated, "blog")
    /\ LET blog_slug == _extract_blog_slug(store, message) IN
       IF ~needs_blog_identifier(message) THEN FallThrough("blog")
       ELSE IF blog_slug = None
       THEN Return(ChatResponse(
                <<"Untuk melihat detail artikel, sebutkan SLUG artikel (mis. '10-tips-budget-travel-untuk-backpacker-pemula').">>,
                << >>))
       ELSE IF ~RowExists(store, "blogs", "slug", blog_slug)
       THEN Return(ChatResponse(<<"Artikel '", blog_slug, "' tidak ditemukan.">>, <<"blogs.by_slug">>))
       ELSE FallThrough("blog")
    /\ UNCHANGED intent /\ GateFrame

GateCategory ==
    /\ pc = "category"
    /\ evaluated' = Append(evaluated, "category")
    /\ LET cat_slug == _extract_category_slug(store, message) IN
       IF ~needs_category_identifier(message) THEN FallThrough("category")
       ELSE IF cat_slug = None
       THEN Return(ChatResponse(
                <<"Untuk melihat detail kategori, sebutkan SLUG kategori (mis. 'tips-travel').">>, << >>))
       ELSE IF ~RowExists(store, "categories", "slug", cat_slug)
       THEN Return(ChatResponse(<<"Kategori '", cat_slug, "' tidak ditemukan.">>,
                                <<"categories.by_slug">>))
       ELSE FallThrough("category")
    /\ UNCHANGED intent /\ GateFrame

GateTag ==
    /\ pc = "tag"
    /\ evaluated' = Append(evaluated, "tag")
    /\ LET tag_slug == _extract_tag_slug(store, message) IN
       IF ~needs_tag_identifier(message) THEN FallThrough("tag")
       ELSE IF tag_slug = None
       THEN Return(ChatResponse(
                <<"Untuk melihat detail tag, sebutkan SLUG tag (mis. 'budgettravel').">>, << >>))
       ELSE IF ~RowExists(store, "tags", "slug", tag_slug)
       THEN Return(ChatResponse(<<"Tag '", tag_slug, "' tidak ditemukan.">>, <<"tags.by_slug">>))
       ELSE FallThrough("tag")
    /\ UNCHANGED intent /\ GateFrame

GateSchedule ==
    /\ pc = "schedule"
    /\ evaluated' = Append(evaluated, "schedule")
    /\ LET slug == _extract_trip_slug_or_id(store, message)[1]
           trip_id == _extract_trip_slug_or_id(store, message)[2]
       IN  IF needs_schedule_identifier(message) /\ slug = None /\ trip_id = None
           THEN Return(ChatResponse(
                    <<"Untuk melihat jadwal trip, sebutkan ID atau SLUG trip (mis. 'raja-ampat-diving-paradise').">>,
                    << >>))
           ELSE FallThrough("schedule")
    /\ UNCHANGED intent /\ GateFrame

GateReview ==
    /\ pc = "review"
    /\ evaluated' = Append(evaluated, "review")
    /\ LET review_id == _extract_review_id(store, message) IN
       IF ~needs_review_identifier(message) THEN FallThrough("review")
       ELSE IF review_id = None
       THEN Return(ChatResponse(
                <<"Untuk memeriksa detail review, sebutkan ID review (mis. 'review #5').">>, << >>))
       ELSE IF ~RowExists(store, "reviews", "id", review_id)
       THEN Return(ChatResponse(<<"Review #", review_id, " tidak ditemukan.">>, <<"reviews.by_id">>))
       ELSE FallThrough("review")
    /\ UNCHANGED intent /\ GateFrame

BookingPrompt(subintent) ==
    IF subintent = "payment_status"
    THEN <<"Untuk memeriksa status pembayaran, sebutkan KODE BOOKING Anda (mis. TG-ABC123).">>
    ELSE IF subintent = "booking_detail"
    THEN <<"Untuk melihat detail booking, sebutkan KODE BOOKING Anda (mis. TG-ABC123).">>
    ELSE <<"Untuk memeriksa status booking, sebutkan KODE BOOKING Anda (mis. TG-ABC123).">>

\* the not-found text in the style of the trip gate
BookingNotFoundQuoted(code) == <<"Kode booking '", code, "' tidak ditemukan.">>

BookingNotFound(code) ==
    <<"Kode booking ", code, " tidak ditemukan. Periksa ejaan atau gunakan kode lain.">>

\* the private-topic block without the existence probe
GatePrivateWithoutProbe ==
    /\ pc = "private"
    /\ LET subintent == detect_private_subintent(message)
           code == _extract_booking_code(message, ChatRequestBookingCode)
       IN  /\ evaluated' = Append(evaluated, "private")
           /\ IF (intent = "private" \/ is_private_topic(message)) /\ code = None
              THEN Return(ChatResponse(BookingPrompt(subintent), << >>))
              ELSE FallThrough("private")
    /\ UNCHANGED intent /\ GateFrame

\* the private-topic block: no code (stage 6), then the existence probe (stage 7)
GatePrivate ==
    /\ pc = "private"
    /\ LET subintent == detect_private_subintent(message)
           code == _extract_booking_code(message, ChatRequestBookingCode)
       IN  IF ~(intent = "private" \/ is_private_topic(message))
           THEN /\ evaluated' = Append(evaluated, "private")
                /\ FallThrough("private")
           ELSE IF code = None
           THEN /\ evaluated' = Append(evaluated, "private")
                /\ Return(ChatResponse(BookingPrompt(subintent), << >>))
           ELSE /\ evaluated' = evaluated \o <<"private", "booking_code">>
                /\ IF ~RowExists(store, "bookings", "booking_code", code)
                   THEN Return(ChatResponse(BookingNotFound(code), <<"bookings.by_code">>))
                   ELSE FallThrough("private")
    /\ UNCHANGED intent /\ GateFrame

ThemeReply ==
    <<"Maaf, topik di luar tema travel. Ajukan pertanyaan seputar promo, trip, itinerary, keamanan perjalanan, dsb.">>

\* the theme check as advice only: nothing is refused
GateThemeAdvisory ==
    /\ pc = "theme"
    /\ evaluated' = Append(evaluated, "theme")
    /\ FallThrough("theme")
    /\ UNCHANGED intent /\ GateFrame

GateTheme ==
    /\ pc = "theme"
    /\ evaluated' = Append(evaluated, "theme")
    /\ IF ~is_on_theme(message)
       THEN Return(ChatResponse(ThemeReply, << >>))
       ELSE FallThrough("theme")
    /\ UNCHANGED intent /\ GateFrame

\* ---------------------------------------------------------------- composer
OutOfContext == <<"Maaf, pertanyaan di luar konteks database ini.">>

GeneratedAnswer == <<"(jawaban model)">>

\* answer_with_context: the model call may raise; an empty text gives the fixed string
answer_with_context(m, chunks) == { "raise", GeneratedAnswer, OutOfContext }

\* answer_thematic: degrades to the fixed string on failure
answer_thematic(m) == { GeneratedAnswer, OutOfContext }

\* an action for every related promo, with or without a code
PromoActionsAll(promos) ==
    [ k \in 1..Len(promos) |->
        [ text |-> "Gunakan kode {promo_code}", promo_code |-> promos[k].promo_code ] ]

RECURSIVE PromoActions(_)
PromoActions(promos) ==
    IF promos = << >> THEN << >>
    ELSE (IF Head(promos).promo_code # None
          THEN << [ text |-> "Gunakan kode {promo_code}", promo_code |-> Head(promos).promo_code ] >>
          ELSE << >>) \o PromoActions(Tail(promos))

SuggestedActions(a) ==
    PromoActions(a.related_promos)
        \o (IF a.related_trips # << >>
            THEN << [ text |-> "Lihat detail trip yang direkomendasikan" ] >> ELSE << >>)
        \o (IF a.user_bookings # << >>
            THEN << [ text |-> "Lihat detail booking terakhir Anda" ] >> ELSE << >>)

_build_general_summary(m, reply, related_trips, related_promos, user_bookings) ==
    (IF strip(m) # << >> THEN << [ part |-> "Permintaan: {msg}", msg |-> strip(m) ] >> ELSE << >>)
        \o (IF related_promos # << >>
            THEN << [ part |-> "Ditemukan {n} promo aktif yang relevan.", n |-> Len(related_promos) ] >>
            ELSE << >>)
        \o (IF related_trips # << >>
            THEN << [ part |-> "Ada {n} trip yang sesuai konteks.", n |-> Len(related_trips) ] >>
            ELSE << >>)
        \o (IF user_bookings # << >>
            THEN << [ part |-> "Kami juga menemukan {n} booking terkait akun Anda.",
                      n |-> Len(user_bookings) ] >>
            ELSE << >>)
        \o (IF reply # << >> THEN << [ part |-> "Jawaban: {reply}", reply |-> reply ] >> ELSE << >>)

Respond(reply, keys) ==
    ChatResponseFull(reply, keys, SuggestedActions(agg), agg.related_trips, agg.user_bookings,
                     agg.related_promos, agg.generated_queries,
                     _build_general_summary(message, reply, agg.related_trips,
                                            agg.related_promos, agg.user_bookings),
                     agg.related_collections)

\* the composer asking for a thematic answer whenever there is no chunk
ComposeThematicAlways ==
    /\ pc = "compose"
    /\ IF agg.chunks = << >>
       THEN IF TRUE
            THEN /\ genCalls' = Append(genCalls, "answer_thematic")
                 /\ UNCHANGED context_chunks
                 /\ \E reply \in answer_thematic(message) :
                        Return(Respond(reply, Append(agg.used_keys, "general.ai")))
            ELSE /\ UNCHANGED <<genCalls, context_chunks>>
                 /\ Return(Respond(OutOfContext, agg.used_keys))
       ELSE /\ genCalls' = Append(genCalls, "answer_with_context")
            /\ context_chunks' = agg.chunks
            /\ \E reply \in answer_with_context(message, agg.chunks) :
                   IF reply = "raise"
                   THEN pc' = "raised" /\ UNCHANGED response
                   ELSE Return(Respond(reply, agg.used_keys))
    /\ UNCHANGED <<message, user_id, store, intent, evaluated, executed, agg, gemini, sql, verdict,
                   first, init_pc, fetched>>

Compose ==
    /\ pc = "compose"
    /\ IF agg.chunks = << >>
       THEN IF intent \in { "public", "unknown" } \/ is_thematic_allowed(message)
            THEN /\ genCalls' = Append(genCalls, "answer_thematic")
                 /\ UNCHANGED context_chunks
                 /\ \E reply \in answer_thematic(message) :
                        Return(Respond(reply, Append(agg.used_keys, "general.ai")))
            ELSE /\ UNCHANGED <<genCalls, context_chunks>>
                 /\ Return(Respond(OutOfContext, agg.used_keys))
       ELSE /\ genCalls' = Append(genCalls, "answer_with_context")
            /\ context_chunks' = agg.chunks
            /\ \E reply \in answer_with_context(message, agg.chunks) :
                   IF reply = "raise"
                   THEN pc' = "raised" /\ UNCHANGED response
                   ELSE Return(Respond(reply, agg.used_keys))
    /\ UNCHANGED <<message, user_id, store, intent, evaluated, executed, agg, gemini, sql, verdict,
                   first, init_pc, fetched>>

\* --------------------------------------------------------- specifications
GeminiConfigs ==
    { [ initialized |-> FALSE, configured |-> "", api_key |-> k, proposal |-> "none" ] :
        k \in { "", "KEY" } }

Init ==
    /\ pc = "idle"
    /\ message = << >>
    /\ user_id = None
    /\ store = InitialStore
    /\ intent = None
    /\ evaluated = << >>
    /\ response = NoResponse
    /\ genCalls = << >>
    /\ executed = << >>
    /\ agg = EmptyAgg(HandlerUser, "chat")
    /\ gemini \in GeminiConfigs
    /\ sql = << >>
    /\ verdict = None
    /\ first = NoRun
    /\ context_chunks = << >>
    /\ init_pc = NoCallers
    /\ fetched = << >>

Next ==
    \/ Receive
    \/ GateSensitive
    \/ GateInternal
    \/ GateGreeting
    \/ GatePii
    \/ GatePromo
    \/ GateTrip
    \/ GateBlog
    \/ GateCategory
    \/ GateTag
    \/ GateSchedule
    \/ GateReview
    \/ GatePrivate
    \/ GateTheme
    \/ AggStart
    \/ AggStep
    \/ AggFinish
    \/ Compose

Spec == Init /\ [][Next]_vars

\* build_ai_aggregate called on its own, for any caller
AggMessages ==
    { <<"booking">>, <<"booking", " ", "TG-XYZ789">>, <<"promo">>, <<"detail", " ", "trip">>,
      <<"halo">>, << >> }

InitAgg ==
    /\ pc = "agg_start"
    /\ message \in AggMessages
    /\ user_id = None
    /\ store = InitialStore
    /\ intent = None
    /\ evaluated = << >>
    /\ response = NoResponse
    /\ genCalls = << >>
    /\ executed = << >>
    /\ agg \in { EmptyAgg(u, "direct") : u \in Users }
    /\ gemini \in GeminiConfigs
    /\ sql = << >>
    /\ verdict = None
    /\ first = NoRun
    /\ context_chunks = << >>
    /\ init_pc = NoCallers
    /\ fetched = << >>

NextAgg ==
    \/ AggStart
    \/ AggStep
    \/ AggFinish

SpecAgg == InitAgg /\ [][NextAgg]_vars

\* the validator applied to one candidate query
InitSql ==
    /\ pc = "sql"
    /\ sql \in Queries
    /\ verdict = None
    /\ message = << >>
    /\ user_id = None
    /\ store = InitialStore
    /\ intent = None
    /\ evaluated = << >>
    /\ response = NoResponse
    /\ genCalls = << >>
    /\ executed = << >>
    /\ agg = EmptyAgg(NoUser, "direct")
    /\ gemini \in GeminiConfigs
    /\ first = NoRun
    /\ context_chunks = << >>
    /\ init_pc = NoCallers
    /\ fetched = << >>

RunValidator ==
    /\ pc = "sql"
    /\ verdict' = IF Validate(sql) THEN "accepted" ELSE "rejected"
    /\ pc' = "sql_done"
    /\ UNCHANGED <<message, user_id, store, intent, evaluated, response, genCalls, executed, agg,
                   gemini, sql, first, context_chunks, init_pc, fetched>>

NextSql == RunValidator

SpecSql == InitSql /\ [][NextSql]_vars

\* the gate that answered the run, or "pass" when the request reached the aggregation
Decision == IF genCalls = << >> /\ pc = "done" THEN evaluated[Len(evaluated)] ELSE "pass"

\* a second request whose audit keys continue the list of the first
RerunSharingKeys ==
    /\ pc \in { "done", "raised" }
    /\ first = NoRun
    /\ first' = [ decision |-> Decision, returned |-> pc = "done",
                  keys |-> IF pc = "done" THEN response.used_context_keys ELSE << >>,
                  agg |-> agg ]
    /\ pc' = GateOrder[1]
    /\ intent' = None
    /\ evaluated' = << >>
    /\ response' = NoResponse
    /\ genCalls' = << >>
    /\ executed' = << >>
    /\ agg' = [ EmptyAgg(HandlerUser, "chat") EXCEPT !.used_keys = agg.used_keys ]
    /\ context_chunks' = << >>
    /\ fetched' = << >>
    /\ UNCHANGED <<message, user_id, store, gemini, sql, verdict, init_pc>>

\* the same request is sent again: the handler starts anew, the store and the
\* process-wide generator client stay as the first run left them
Rerun ==
    /\ pc \in { "done", "raised" }
    /\ first = NoRun
    /\ first' = [ decision |-> Decision, returned |-> pc = "done",
                  keys |-> IF pc = "done" THEN response.used_context_keys ELSE << >>,
                  agg |-> agg ]
    /\ pc' = GateOrder[1]
    /\ intent' = None
    /\ evaluated' = << >>
    /\ response' = NoResponse
    /\ genCalls' = << >>
    /\ executed' = << >>
    /\ agg' = EmptyAgg(HandlerUser, "chat")
    /\ context_chunks' = << >>
    /\ fetched' = << >>
    /\ UNCHANGED <<message, user_id, store, gemini, sql, verdict, init_pc>>

\* requests that are sent twice
TwiceMessages ==
    { <<"promo">>, <<"tips">>, <<"halo">>, <<"Token">>, <<"booking">>,
      <<"booking", " ", "TG-XYZ789">>, <<"detail", " ", "trip", " ", "raja-ampat">>,
      <<"detail", " ", "jadwal">>, <<"database">> }

InitTwice ==
    /\ pc = GateOrder[1]
    /\ message \in TwiceMessages
    /\ user_id \in UserIds
    /\ store = InitialStore
    /\ intent = None
    /\ evaluated = << >>
    /\ response = NoResponse
    /\ genCalls = << >>
    /\ executed = << >>
    /\ agg = EmptyAgg(HandlerUser, "chat")
    /\ gemini \in GeminiConfigs
    /\ sql = << >>
    /\ verdict = None
    /\ first = NoRun
    /\ context_chunks = << >>
    /\ init_pc = NoCallers
    /\ fetched = << >>

NextTwice ==
    \/ GateSensitive
    \/ GateInternal
    \/ GateGreeting
    \/ GatePii
    \/ GatePromo
    \/ GateTrip
    \/ GateBlog
    \/ GateCategory
    \/ GateTag
    \/ GateSchedule
    \/ GateReview
    \/ GatePrivate
    \/ GateTheme
    \/ AggStart
    \/ AggStep
    \/ AggFinish
    \/ Compose
    \/ Rerun

SpecTwice == InitTwice /\ [][NextTwice]_vars

\* ------------------------------------- concurrent callers of _ensure_init
\* every variable but the generator client and the callers' positions
InitFrame ==
    UNCHANGED <<pc, message, user_id, store, intent, evaluated, response, genCalls, executed,
                agg, sql, verdict, first, context_chunks, fetched>>

\* a request calls cls._ensure_init()
EnsureInitEnter(c) ==
    /\ init_pc[c] = "out"
    /\ init_pc' = [ init_pc EXCEPT ![c] = "test_flag" ]
    /\ UNCHANGED gemini
    /\ InitFrame

\* if cls._initialized: return
EnsureInitTestFlag(c) ==
    /\ init_pc[c] = "test_flag"
    /\ init_pc' = [ init_pc EXCEPT ![c] = IF gemini.initialized THEN "returned" ELSE "test_key" ]
    /\ UNCHANGED gemini
    /\ InitFrame

\* the flag set before the key is tested
EnsureInitTestKeyMarking(c) ==
    /\ init_pc[c] = "test_key"
    /\ gemini' = [ gemini EXCEPT !.initialized = TRUE ]
    /\ init_pc' = [ init_pc EXCEPT ![c] = IF gemini.api_key = "" THEN "raised" ELSE "configure" ]
    /\ InitFrame

\* if not settings.google_api_key: raise RuntimeError
EnsureInitTestKey(c) ==
    /\ init_pc[c] = "test_key"
    /\ init_pc' = [ init_pc EXCEPT ![c] = IF gemini.api_key = "" THEN "raised" ELSE "configure" ]
    /\ UNCHANGED gemini
    /\ InitFrame

\* genai.configure(api_key=settings.google_api_key)
EnsureInitConfigure(c) ==
    /\ init_pc[c] = "configure"
    /\ gemini' = [ gemini EXCEPT !.configured = gemini.api_key ]
    /\ init_pc' = [ init_pc EXCEPT ![c] = "set_flag" ]
    /\ InitFrame

\* cls._initialized = True
EnsureInitSetFlag(c) ==
    /\ init_pc[c] = "set_flag"
    /\ gemini' = [ gemini EXCEPT !.initialized = TRUE ]
    /\ init_pc' = [ init_pc EXCEPT ![c] = "returned" ]
    /\ InitFrame

\* the call has returned or raised; the request ends
EnsureInitLeave(c) ==
    /\ init_pc[c] \in { "returned", "raised" }
    /\ init_pc' = [ init_pc EXCEPT ![c] = "out" ]
    /\ UNCHANGED gemini
    /\ InitFrame

InitInit ==
    /\ pc = "init"
    /\ message = << >>
    /\ user_id = None
    /\ store = InitialStore
    /\ intent = None
    /\ evaluated = << >>
    /\ response = NoResponse
    /\ genCalls = << >>
    /\ executed = << >>
    /\ agg = EmptyAgg(NoUser, "direct")
    /\ gemini \in GeminiConfigs
    /\ sql = << >>
    /\ verdict = None
    /\ first = NoRun
    /\ context_chunks = << >>
    /\ init_pc = NoCallers
    /\ fetched = << >>

NextInit ==
    \E c \in Callers :
        \/ EnsureInitEnter(c)
        \/ EnsureInitTestFlag(c)
        \/ EnsureInitTestKey(c)
        \/ EnsureInitConfigure(c)
        \/ EnsureInitSetFlag(c)
        \/ EnsureInitLeave(c)

SpecInit == InitInit /\ [][NextInit]_vars

\* ------------------------------------------------------------------ claims
Last(seq) == seq[Len(seq)]

Range(seq) == { seq[k] : k \in 1..Len(seq) }

\* a gate has answered: the handler returned without reaching the aggregation
Blocked == pc = "done" /\ genCalls = << >>

HasSensitiveKeyword(m) == \E k \in SENSITIVE_KEYWORDS : Contains(lower(m), k)

NoContent(r) ==
    /\ r.related_trips = << >>
    /\ r.related_promos = << >>
    /\ r.user_bookings = << >>
    /\ r.generated_queries = << >>
    /\ r.related_collections = NoCollections

\* C1: a message with a sensitivity keyword gets the fixed denial with no audit key,
\* whatever else it contains, and no other gate, store query or generator call runs.
C1_SensitiveDenied ==
    (pc # "idle" /\ HasSensitiveKeyword(message)) =>
        /\ pc \in { "sensitive", "done" }
        /\ pc = "done" => response = ChatResponse(SensitiveReply, << >>)
        /\ evaluated \in { << >>, <<"sensitive">> }
        /\ genCalls = << >>
        /\ executed = << >>

C1_Witness ==
    /\ pc = "done"
    /\ HasSensitiveKeyword(message)
    /\ ContainsAny(lower(message), ALLOWED_PRIVATE_TOPICS)
    /\ FirstIn(message, BookingCodeShaped) # None
    /\ response.reply = SensitiveReply

\* the stages of the pipeline in the order the claim gives
CanonicalStages ==
    << "sensitive", "internal", "greeting", "pii", "promo", "trip", "blog", "category", "tag",
       "schedule", "review", "private", "booking_code", "theme" >>

StageIndex(g) == CHOOSE i \in 1..Len(CanonicalStages) : CanonicalStages[i] = g

NoIdentifierOrMissing(needs, id, table, field) ==
    needs /\ (id = None \/ ~RowExists(store, table, field, id))

\* the blocking condition of stage g for the message at hand
StageBlocks(g) ==
    LET m == message
        code == _extract_booking_code(m, ChatRequestBookingCode)
        trip == _extract_trip_slug_or_id(store, m)
        private == classify_intent(m) = "private" \/ is_private_topic(m)
    IN  CASE g = "sensitive" -> classify_intent(m) = "sensitive"
          [] g = "internal" -> is_internal_data_request(m)
          [] g = "greeting" -> is_pure_greeting(m)
          [] g = "pii" -> is_pii_lookup(m) /\ code = None
          [] g = "promo" ->
               NoIdentifierOrMissing(needs_promo_identifier(m), _extract_promo_code(store, m),
                                     "promos", "promo_code")
          [] g = "trip" ->
               needs_trip_identifier(m)
                   /\ \/ trip = <<None, None>>
                      \/ trip[1] # None /\ ~RowExists(store, "trips", "slug", trip[1])
          [] g = "blog" ->
               NoIdentifierOrMissing(needs_blog_identifier(m), _extract_blog_slug(store, m),
                                     "blogs", "slug")
          [] g = "category" ->
               NoIdentifierOrMissing(needs_category_identifier(m),
                                     _extract_category_slug(store, m), "categories", "slug")
          [] g = "tag" ->
               NoIdentifierOrMissing(needs_tag_identifier(m), _extract_tag_slug(store, m),
                                     "tags", "slug")
          [] g = "schedule" -> needs_schedule_identifier(m) /\ trip = <<None, None>>
          [] g = "review" ->
               NoIdentifierOrMissing(needs_review_identifier(m), _extract_review_id(store, m),
                                     "reviews", "id")
          [] g = "private" -> private /\ code = None
          [] g = "booking_code" ->
               private /\ code # None /\ ~RowExists(store, "bookings", "booking_code", code)
          [] g = "theme" -> ~is_on_theme(m)

C2_OrderInv ==
    /\ \A i, j \in 1..Len(evaluated) :
           i < j => StageIndex(evaluated[i]) < StageIndex(evaluated[j])
    /\ Blocked =>
           /\ StageBlocks(Last(evaluated))
           /\ \A g \in Range(CanonicalStages) :
                  StageIndex(g) < StageIndex(Last(evaluated)) => ~StageBlocks(g)
    /\ pc = "agg_start" => \A g \in Range(CanonicalStages) : ~StageBlocks(g)

\* C2: the gates are evaluated in the fixed order, the first gate whose condition holds
\* produces the response, and once a response exists no gate is evaluated and the
\* response is not replaced.
C2_GateOrder ==
    /\ []C2_OrderInv
    /\ [][response # NoResponse => (evaluated' = evaluated /\ response' = response)]_vars

C2_Witness ==
    /\ Blocked
    /\ Last(evaluated) = "promo"
    /\ StageBlocks("private")
    /\ StageBlocks("theme") = FALSE

\* the fixed texts of the gates, without the identifier a not-found text names
GateTexts ==
    { SensitiveReply[1], "Data internal sistem tidak dapat diakses.", build_greeting_reply[1],
      PiiReply[1],
      "Untuk memeriksa promo spesifik, sebutkan KODE PROMO (mis. WELCOME200).",
      "Kode promo ", " tidak ditemukan. Periksa ejaan atau gunakan kode lain.",
      "Untuk melihat status/detail trip, sebutkan ID atau SLUG trip (mis. 'raja-ampat-diving-paradise').",
      "Trip '", "' tidak ditemukan.",
      "Untuk melihat detail artikel, sebutkan SLUG artikel (mis. '10-tips-budget-travel-untuk-backpacker-pemula').",
      "Artikel '",
      "Untuk melihat detail kategori, sebutkan SLUG kategori (mis. 'tips-travel').",
      "Kategori '",
      "Untuk melihat detail tag, sebutkan SLUG tag (mis. 'budgettravel').",
      "Tag '",
      "Untuk melihat jadwal trip, sebutkan ID atau SLUG trip (mis. 'raja-ampat-diving-paradise').",
      "Untuk memeriksa detail review, sebutkan ID review (mis. 'review #5').",
      "Review #", " tidak ditemukan.",
      "Untuk memeriksa status booking, sebutkan KODE BOOKING Anda (mis. TG-ABC123).",
      "Untuk memeriksa status pembayaran, sebutkan KODE BOOKING Anda (mis. TG-ABC123).",
      "Untuk melihat detail booking, sebutkan KODE BOOKING Anda (mis. TG-ABC123).",
      "Kode booking ", ThemeReply[1] }

TypedIdentifiers(m) == Range(m) \cup { IdOf(x) : x \in Range(m) \cap IdShaped }

\* C3: a response produced by a gate carries no database content: the five collections
\* are empty and the reply is a fixed gate text naming at most an identifier typed in
\* the message.
C3_BlockedNoContent ==
    Blocked =>
        /\ NoContent(response)
        /\ \A k \in 1..Len(response.reply) :
               response.reply[k] \in GateTexts \cup TypedIdentifiers(message)

C3_Witness ==
    /\ Blocked
    /\ Last(evaluated) = "booking_code"
    /\ response.reply = BookingNotFound("TG-ABC123")
    /\ NoContent(response)

\* index of the last lexeme before i that is not whitespace (0 if none)
RECURSIVE PrevLexeme(_, _)
PrevLexeme(l, i) ==
    IF i <= 1 THEN 0 ELSE IF l[i - 1] \in Whitespace THEN PrevLexeme(l, i - 1) ELSE i - 1

\* the identifier at position i of the statement names a table: it follows FROM or JOIN,
\* directly or inside parentheses, or continues a comma-separated FROM list
RECURSIVE IsTableReference(_, _)
IsTableReference(l, i) ==
    LET p == PrevLexeme(l, i)
        pp == PrevLexeme(l, p)
    IN  /\ IsIdentifier(l[i])
        /\ p > 0
        /\ \/ l[p] \in { "from", "join" }
           \/ l[p] = "(" /\ pp > 0 /\ l[pp] \in { "from", "join" }
           \/ l[p] = "," /\ pp > 0 /\ IsTableReference(l, pp)

ReferencedTables(q) ==
    LET l == lower(q) IN { l[i] : i \in { j \in 1..Len(l) : IsTableReference(l, j) } }

\* C4: a candidate that references a table outside ALLOWED_AI_TABLES, in a
\* comma-separated FROM list or a subquery as well, is rejected and never executed.
C4_OnlyWhitelistedTables ==
    /\ verdict = "accepted" => ReferencedTables(sql) \subseteq ALLOWED_AI_TABLES
    /\ \A k \in 1..Len(executed) : ReferencedTables(executed[k]) \subseteq ALLOWED_AI_TABLES

\* the write keyword stands in the statement as a whole token: followed by whitespace or
\* by the end of the text
HasWriteKeywordToken(q) ==
    LET l == lower(strip(q)) IN
    \E i \in 1..Len(l) :
        l[i] \in BlockedKeywords /\ (i = Len(l) \/ l[i + 1] \in Whitespace)

\* C5: a candidate containing ';', '--', or a write keyword as a whole token is rejected.
C5_WriteKeywordRejected ==
    (pc = "sql_done"
        /\ \/ Contains(sql, <<";">>)
           \/ Contains(sql, <<"--">>)
           \/ HasWriteKeywordToken(sql))
    => verdict = "rejected"

IsBookingChunk(c) == c.text = "Booking {booking_code}: trip {trip_name}, ..."

\* the candidate passes every rule of the validator
PassesRules(q) ==
    /\ strip(q) # << >>
    /\ _is_select_only(strip(q))
    /\ _is_whitelisted_tables(strip(q), ALLOWED_AI_TABLES)

C6_ExecutedInv ==
    /\ \A k \in 1..Len(executed) :
           /\ PassesRules(executed[k])
           /\ \E j \in 1..Len(agg.ai_queries) : j < agg.i /\ strip(agg.ai_queries[j]) = executed[k]
    /\ \A k \in 1..Len(agg.generated_queries) : agg.generated_queries[k] \in Range(executed)
    /\ executed = << >> =>
           /\ \A k \in 1..Len(agg.chunks) : IsBookingChunk(agg.chunks[k])
           /\ Range(agg.used_keys) \subseteq { "bookings.mine.latest10" }
           /\ agg.related_collections = NoCollections
           /\ agg.related_trips = << >>
           /\ agg.related_promos = << >>

\* C6: only candidates that passed every rule are executed and listed in
\* generated_queries, and a candidate that fails a rule is skipped without adding an
\* audit key, a chunk or a collection entry.
C6_OnlyValidatedExecuted ==
    /\ []C6_ExecutedInv
    /\ [][(pc = "agg_loop" /\ agg.i <= Len(agg.ai_queries)
              /\ ~PassesRules(agg.ai_queries[agg.i]))
          => (executed' = executed /\ store' = store
                 /\ agg' = [ agg EXCEPT !.i = @ + 1 ])]_vars

C6_Witness ==
    /\ pc = "agg_done"
    /\ Len(agg.ai_queries) = 2
    /\ ~PassesRules(agg.ai_queries[1])
    /\ ReferencedTables(agg.ai_queries[1]) = { "users" }
    /\ Len(executed) = 1
    /\ agg.generated_queries = executed
    /\ agg.used_keys = <<"trips.ai">>

\* C7: the store is never modified: build_ai_aggregate executes no statement that
\* changes rows, and the store holds the same rows before and after.
C7_StoreUnchanged ==
    /\ store = InitialStore
    /\ \A k \in 1..Len(executed) : ~IsWriteStatement(executed[k])

BookingsAggregated(a) ==
    \/ a.user_bookings # << >>
    \/ \E k \in 1..Len(a.chunks) : IsBookingChunk(a.chunks[k])
    \/ "bookings.mine.latest10" \in Range(a.used_keys)

\* C8: booking rows are aggregated only when the intent is private and a verified
\* identifier (an authenticated user or an existing booking code) is present.
C8_BookingsOnlyPrivateVerified ==
    BookingsAggregated(agg) =>
        /\ classify_intent(message) = "private"
        /\ \/ agg.user # NoUser
           \/ \E c \in Range(message) \cap BookingCodeShaped :
                  RowExists(store, "bookings", "booking_code", c)

C8_Witness ==
    /\ pc = "agg_done"
    /\ classify_intent(message) = "private"
    /\ agg.user # NoUser
    /\ Len(agg.user_bookings) = 2
    /\ "bookings.mine.latest10" \in Range(agg.used_keys)

\* the request is about private data
PrivateTopic == classify_intent(message) = "private" \/ is_private_topic(message)

\* the booking code the request carries, or None
CarriedCode == _extract_booking_code(message, ChatRequestBookingCode)

NoVerifiedCode ==
    CarriedCode = None \/ ~RowExists(store, "bookings", "booking_code", CarriedCode)

\* replies that ask for a booking code
BookingCodePrompts ==
    { BookingPrompt(s) : s \in { "payment_status", "booking_detail", "generic" } }
        \cup { PiiReply }
        \cup { <<"Kode booking ", c, " tidak ditemukan. Periksa ejaan atau gunakan kode lain.">> :
                 c \in BookingCodeShaped }

\* a gate ahead of the private-topic block answers the message
EarlierGateBlocks ==
    \E g \in Range(CanonicalStages) : StageIndex(g) < StageIndex("private") /\ StageBlocks(g)

C10_UnknownCodeNotFound ==
    (pc = "done" /\ PrivateTopic /\ CarriedCode # None
        /\ ~RowExists(store, "bookings", "booking_code", CarriedCode))
    => /\ response.reply =
              <<"Kode booking ", CarriedCode,
                " tidak ditemukan. Periksa ejaan atau gunakan kode lain.">>
       /\ genCalls = << >>

\* C10 amended: the same, for a message that no gate ahead of the private-topic block
\* answers; in every case the generator is not called.
C10_UnknownCodeNotFoundUnlessEarlierGate ==
    (pc = "done" /\ PrivateTopic /\ CarriedCode # None
        /\ ~RowExists(store, "bookings", "booking_code", CarriedCode))
    => /\ ~EarlierGateBlocks =>
              /\ response.reply =
                     <<"Kode booking ", CarriedCode,
                       " tidak ditemukan. Periksa ejaan atau gunakan kode lain.">>
              /\ response.used_context_keys = <<"bookings.by_code">>
       /\ genCalls = << >>
       /\ NoContent(response)

C10_Witness ==
    /\ pc = "done"
    /\ PrivateTopic
    /\ CarriedCode = "TG-ABC123"
    /\ ~RowExists(store, "bookings", "booking_code", CarriedCode)
    /\ ~EarlierGateBlocks
    /\ response.reply =
           <<"Kode booking ", "TG-ABC123", " tidak ditemukan. Periksa ejaan atau gunakan kode lain.">>
    /\ genCalls = << >>

\* the gates every request that is not refused goes through
AllGates ==
    { "sensitive", "internal", "greeting", "pii", "promo", "trip", "blog", "category", "tag",
      "schedule", "review", "private", "theme" }

SomeStageBlocks == \E g \in Range(CanonicalStages) : StageBlocks(g)

\* C11: the generator and build_ai_aggregate are invoked only after every gate stage has
\* been evaluated and none has blocked; a blocked request makes no generator call.
C11_GeneratorOnlyAfterGates ==
    /\ (genCalls # << >> \/ executed # << >> \/ pc \in { "agg_start", "agg_loop", "compose" }) =>
           /\ AllGates \subseteq Range(evaluated)
           /\ response = NoResponse \/ pc = "done"
    /\ (pc \in { "agg_start", "done", "raised" } /\ SomeStageBlocks) =>
           /\ pc = "done"
           /\ genCalls = << >>
           /\ executed = << >>
           /\ agg = EmptyAgg(NoUser, "chat")
    /\ (pc = "agg_start" /\ PrivateTopic) => "booking_code" \in Range(evaluated)

C11_Witness ==
    /\ pc = "done"
    /\ genCalls = <<"generate_sql_queries", "answer_with_context">>
    /\ "booking_code" \in Range(evaluated)
    /\ AllGates \subseteq Range(evaluated)
    /\ ~SomeStageBlocks

\* the candidates of the batch that pass the validator, stripped, in order
ValidatedOf(qs) == SelectSeq([ k \in 1..Len(qs) |-> strip(qs[k]) ], PassesRules)

IsPrefix(a, b) == Len(a) <= Len(b) /\ SubSeq(b, 1, Len(a)) = a

\* one iteration of the loop on a validated candidate: the statement is executed; either
\* it raised and the aggregate is untouched, or it is listed and its rows are appended
ValidatedStep ==
    LET q == strip(agg.ai_queries[agg.i])
        mt == _guess_main_table(q)
    IN  /\ executed' = Append(executed, q)
        /\ pc' = "agg_loop"
        /\ agg'.i = agg.i + 1
        /\ agg'.ai_queries = agg.ai_queries
        /\ \/ agg' = [ agg EXCEPT !.i = @ + 1 ]
           \/ /\ agg'.generated_queries = Append(agg.generated_queries, q)
              /\ \E k \in 0..Len(store[mt]) :
                     agg'.related_collections =
                         [ agg.related_collections EXCEPT ![mt] = @ \o SubSeq(store[mt], 1, k) ]
              /\ IsPrefix(agg.chunks, agg'.chunks)
              /\ IsPrefix(agg.used_keys, agg'.used_keys)

C12_BatchInv ==
    pc = "agg_done" => executed = ValidatedOf(agg.ai_queries)

\* C12: each validated query of a batch is executed on its own: a query whose execution
\* raises is omitted, and every other validated query, before and after it, is still
\* executed and adds its rows to related_collections and its text to generated_queries.
C12_QueriesIndependent ==
    /\ []C12_BatchInv
    /\ [][(pc = "agg_loop" /\ agg.i <= Len(agg.ai_queries)
              /\ PassesRules(agg.ai_queries[agg.i])) => ValidatedStep]_vars

C12_Witness ==
    /\ pc = "agg_done"
    /\ Len(executed) = 2
    /\ agg.generated_queries = <<executed[2]>>
    /\ agg.related_collections[_guess_main_table(executed[2])] # << >>
    /\ agg.related_collections[_guess_main_table(executed[1])] = << >>
    /\ _guess_main_table(executed[1]) # _guess_main_table(executed[2])

\* C13: no run of the chat handler ends in an exception that escapes the handler: a
\* generator failure or an error inside the aggregation call is turned into a response.
C13_NoEscapingException == pc # "raised"

\* the query-proposal call of the generator failed: the client could not be initialised,
\* or the model call or the parse of its answer raised
ProposalFailed ==
    \/ pc = "raised" /\ genCalls # << >> /\ Last(genCalls) = "generate_sql_queries"
    \/ gemini.proposal = "failed"

\* C14: when the query-proposal call fails in any way, generate_sql_queries returns the
\* empty list and raises nothing.
C14_FailedProposalIsEmpty ==
    ProposalFailed => (pc # "raised" /\ agg.ai_queries = << >>)

\* C15: a failure of the generator's answer call is not propagated: the answer operation
\* returns the fixed out-of-context text, so no run ends in an exception raised by it.
C15_AnswerFailureNotPropagated ==
    (genCalls # << >> /\ Last(genCalls) = "answer_with_context") =>
        (pc = "done" /\ response.reply \in { GeneratedAnswer, OutOfContext })

\* the bookings of the caller, newest first, at most ten
RecentBookings == get_user_recent_bookings(store, agg.user, 10)

\* C16: with a private intent and a user, build_ai_aggregate returns the user's recent
\* bookings (at most 10) in user_bookings, with the key bookings.mine.latest10, also when
\* the query-proposal call of the generator fails entirely.
C16_BookingsDespiteFailedProposal ==
    (/\ pc \in { "agg_done", "raised" }
     /\ ProposalFailed
     /\ classify_intent(message) = "private"
     /\ agg.user # NoUser
     /\ \A k \in 1..Len(RecentBookings) : BookingResponseValid(RecentBookings[k]))
    => /\ pc = "agg_done"
       /\ agg.user_bookings = [ k \in 1..Len(RecentBookings) |-> BookingResponse(RecentBookings[k]) ]
       /\ Len(agg.user_bookings) <= 10
       /\ "bookings.mine.latest10" \in Range(agg.used_keys)

\* C17: a pure greeting that triggers neither the sensitive nor the internal-data gate is
\* answered with the canned greeting, used_context_keys exactly <<"greeting">> and every
\* other collection empty.
C17_GreetingReply ==
    (/\ pc = "done"
     /\ is_pure_greeting(message)
     /\ classify_intent(message) # "sensitive"
     /\ ~is_internal_data_request(message))
    => /\ response.reply = build_greeting_reply
       /\ response.used_context_keys = <<"greeting">>
       /\ response.suggested_actions = << >>
       /\ NoContent(response)
       /\ genCalls = << >>

C17_Witness ==
    /\ pc = "done"
    /\ is_pure_greeting(message)
    /\ Len(message) > 1
    /\ Last(evaluated) = "greeting"
    /\ response.used_context_keys = <<"greeting">>

\* C18: a lookup by name, email or phone with no extractable booking code that passes
\* gates 1-3 gets the privacy refusal with no audit key, whether or not the caller is
\* logged in (the response is the same for every user_id).
C18_PiiRefusal ==
    (/\ pc = "done"
     /\ is_pii_lookup(message)
     /\ _extract_booking_code(message, ChatRequestBookingCode) = None
     /\ classify_intent(message) # "sensitive"
     /\ ~is_internal_data_request(message)
     /\ ~is_pure_greeting(message))
    => /\ user_id \in UserIds
       /\ response.reply = PiiReply
       /\ response.used_context_keys = << >>
       /\ NoContent(response)
       /\ Last(evaluated) = "pii"
       /\ genCalls = << >>

C18_Witness ==
    /\ pc = "done"
    /\ user_id # None
    /\ is_pii_lookup(message)
    /\ ContainsAny(lower(message), ALLOWED_PRIVATE_TOPICS)
    /\ response.reply = PiiReply
    /\ response.used_context_keys = << >>

\* the entity kinds of stage 5
EntityKinds == { "promo", "trip", "blog", "category", "tag", "schedule", "review" }

NeedsIdentifier(k) ==
    CASE k = "promo" -> needs_promo_identifier(message)
      [] k = "trip" -> needs_trip_identifier(message)
      [] k = "blog" -> needs_blog_identifier(message)
      [] k = "category" -> needs_category_identifier(message)
      [] k = "tag" -> needs_tag_identifier(message)
      [] k = "schedule" -> needs_schedule_identifier(message)
      [] k = "review" -> needs_review_identifier(message)

\* the identifier extracted for kind k, or None; a trip is named by slug or else by id
ExtractedIdentifier(k) ==
    LET trip == _extract_trip_slug_or_id(store, message) IN
    CASE k = "promo" -> _extract_promo_code(store, message)
      [] k \in { "trip", "schedule" } -> IF trip[1] # None THEN trip[1] ELSE trip[2]
      [] k = "blog" -> _extract_blog_slug(store, message)
      [] k = "category" -> _extract_category_slug(store, message)
      [] k = "tag" -> _extract_tag_slug(store, message)
      [] k = "review" -> _extract_review_id(store, message)

\* the row the identifier of kind k names exists
IdentifierExists(k) ==
    LET id == ExtractedIdentifier(k)
        trip == _extract_trip_slug_or_id(store, message)
    IN  CASE k = "promo" -> RowExists(store, "promos", "promo_code", id)
          [] k \in { "trip", "schedule" } ->
               IF trip[1] # None THEN RowExists(store, "trips", "slug", id)
               ELSE RowExists(store, "trips", "id", id)
          [] k = "blog" -> RowExists(store, "blogs", "slug", id)
          [] k = "category" -> RowExists(store, "categories", "slug", id)
          [] k = "tag" -> RowExists(store, "tags", "slug", id)
          [] k = "review" -> RowExists(store, "reviews", "id", id)

NotFoundKey(k) ==
    CASE k = "promo" -> "promos.by_code"
      [] k \in { "trip", "schedule" } -> "trips.by_slug"
      [] k = "blog" -> "blogs.by_slug"
      [] k = "category" -> "categories.by_slug"
      [] k = "tag" -> "tags.by_slug"
      [] k = "review" -> "reviews.by_id"

\* what the gate of kind k must have done once it has been evaluated
EntityGateRefuses(k) ==
    (k \in Range(evaluated) /\ NeedsIdentifier(k)) =>
        IF ExtractedIdentifier(k) = None
        THEN /\ pc = "done" /\ Last(evaluated) = k
             /\ response.used_context_keys = << >>
             /\ Len(response.reply) = 1
        ELSE IF ~IdentifierExists(k)
        THEN /\ pc = "done" /\ Last(evaluated) = k
             /\ response.used_context_keys = <<NotFoundKey(k)>>
             /\ ExtractedIdentifier(k) \in Range(response.reply)
        ELSE Last(evaluated) # k \/ pc # "done"

\* C19: for each entity kind a message that needs the identifier is refused with a prompt
\* and no audit key when none can be extracted, and with a not-found text naming the
\* identifier and the key "<table>.by_<field>" when the extracted identifier matches no
\* row; an extracted identifier never passes the gate without the existence probe.
C19_EntityRefusals == \A k \in EntityKinds : EntityGateRefuses(k)

\* both runs of the request have ended
BothRunsEnded == first # NoRun /\ pc \in { "done", "raised" } /\ store = InitialStore

\* both runs got the same candidate queries and the same rows from the store
SameProposalsAndRows ==
    /\ agg.ai_queries = first.agg.ai_queries
    /\ agg.generated_queries = first.agg.generated_queries
    /\ agg.related_collections = first.agg.related_collections

Count(x, seq) == Cardinality({ i \in 1..Len(seq) : seq[i] = x })

\* the audit key of a table whose rows were aggregated
TableKey(t) ==
    IF t = "promos" THEN "promos.ai" ELSE IF t = "trips" THEN "trips.ai" ELSE AiKey(t)

\* C21: in the used_keys returned by build_ai_aggregate the key "<table>.ai" appears exactly
\* once for each table that yielded at least one chunk, however many validated queries
\* returned rows for that table, and not at all for a table that yielded none.
C21_AiKeyOncePerTable ==
    pc = "agg_done" =>
        \A t \in ALLOWED_AI_TABLES :
            Count(TableKey(t), agg.used_keys) =
                IF agg.related_collections[t] # << >> THEN 1 ELSE 0

\* C22: a candidate query from which the from/join scan extracts no table name, such as
\* 'SELECT 1', is rejected by the validator.
C22_NoTableRejected ==
    (verdict # None /\ _extract_tables_in_sql(strip(sql)) = {}) => verdict = "rejected"

\* 'select 1' passes the statement rules, names no table and is rejected
C22_Witness ==
    /\ sql = <<"select", " ", "1">>
    /\ _is_select_only(strip(sql))
    /\ _extract_tables_in_sql(strip(sql)) = {}
    /\ verdict = "rejected"

\* the message, compared without regard to case, contains a keyword of the set K
Mentions(K) == \E k \in K : Contains(lower(message), k)

\* C23: classify_intent is total and deterministic with the priority sensitive > private >
\* public > unknown: once the handler has classified the message, the intent is
\* 'sensitive' if the message has a sensitive keyword, whatever else it contains,
\* 'private' if it has a private but no sensitive keyword, 'public' if it has only public
\* keywords, and 'unknown' for every other message, the empty one included.
C23_ClassifyPriority ==
    evaluated # << >> =>
        intent = IF Mentions(SENSITIVE_KEYWORDS) THEN "sensitive"
                 ELSE IF Mentions(ALLOWED_PRIVATE_TOPICS) THEN "private"
                 ELSE IF Mentions(ALLOWED_PUBLIC_TOPICS) THEN "public"
                 ELSE "unknown"

\* a message with a private and a public keyword and no sensitive one is classified
C23_Witness ==
    /\ evaluated # << >>
    /\ ~Mentions(SENSITIVE_KEYWORDS)
    /\ Mentions(ALLOWED_PRIVATE_TOPICS)
    /\ Mentions(ALLOWED_PUBLIC_TOPICS)
    /\ intent = "private"

\* the handler has passed the gates and the aggregation, and the composer has run
Composed == genCalls # << >> /\ (pc = "done" \/ (pc = "raised" /\ Len(genCalls) = 2))

\* generator operations invoked by the composer
AnswerCalls == SubSeq(genCalls, 2, Len(genCalls))

\* C24: when the aggregate yields no chunks and the intent is public or unknown or the
\* message passes the thematic-allowance check, the reply is the generator's context-free
\* thematic answer and 'general.ai' is appended to used_context_keys; when it yields no
\* chunks otherwise, the reply is the fixed out-of-context text and no generator answer
\* call is made; when chunks exist, the context-grounded answer is requested with exactly
\* that chunk list.
C24_ComposerBranches ==
    Composed =>
        IF agg.chunks # << >>
        THEN /\ AnswerCalls = <<"answer_with_context">>
             /\ context_chunks = agg.chunks
             /\ pc = "done" => response.used_context_keys = agg.used_keys
        ELSE IF intent \in { "public", "unknown" } \/ is_thematic_allowed(message)
        THEN /\ AnswerCalls = <<"answer_thematic">>
             /\ pc = "done"
             /\ response.reply \in answer_thematic(message)
             /\ response.used_context_keys = Append(agg.used_keys, "general.ai")
        ELSE /\ AnswerCalls = << >>
             /\ pc = "done"
             /\ response.reply = OutOfContext
             /\ response.used_context_keys = agg.used_keys

\* a private request with a verified booking code and no chunk gets the fixed text
C24_Witness ==
    /\ Composed
    /\ pc = "done"
    /\ agg.chunks = << >>
    /\ intent = "private"
    /\ ~is_thematic_allowed(message)
    /\ genCalls = <<"generate_sql_queries">>
    /\ response.reply = OutOfContext

\* the actions the response should carry, read off its own related lists
ExpectedActions(r) ==
    LET HasCode(p) == p.promo_code # None
        coded == SelectSeq(r.related_promos, HasCode)
    IN  [ k \in 1..Len(coded) |->
            [ text |-> "Gunakan kode {promo_code}", promo_code |-> coded[k].promo_code ] ]
        \o (IF Len(r.related_trips) > 0
            THEN << [ text |-> "Lihat detail trip yang direkomendasikan" ] >> ELSE << >>)
        \o (IF Len(r.user_bookings) > 0
            THEN << [ text |-> "Lihat detail booking terakhir Anda" ] >> ELSE << >>)

\* C25: suggested_actions is derived from the aggregate: one 'Gunakan kode <code>' entry
\* per related promo that has a promo code, in promo order, then exactly one trip action
\* iff related_trips is non-empty, then exactly one booking action iff user_bookings is
\* non-empty, and nothing else.
C25_SuggestedActions ==
    pc = "done" => response.suggested_actions = ExpectedActions(response)

\* a response with a coded and an uncoded related promo carries one promo action
C25_Witness ==
    /\ pc = "done"
    /\ Len(response.related_promos) = 2
    /\ response.related_promos[1].promo_code # None
    /\ response.related_promos[2].promo_code = None
    /\ Len(response.suggested_actions) = 1

IsPromoChunk(c) == c.text \in { "Promo: {name}", "Promo: {name} (kode {code})" }

IsTripChunk(c) == c.text = "Trip: {name} ({loc}), harga {price}"

\* the typed summaries of the rows that can be mapped, in row order
MappablePromos(rows) ==
    LET Ok(r) == CanMap(r, PromoSummaryRequired)
        ok == SelectSeq(rows, Ok)
    IN  [ k \in 1..Len(ok) |-> PromoSummary(ok[k]) ]

MappableTrips(rows) ==
    LET Ok(r) == CanMap(r, TripResponseRequired)
        ok == SelectSeq(rows, Ok)
    IN  [ k \in 1..Len(ok) |-> TripResponse(ok[k]) ]

\* the statements listed as executed whose main table is t
ListedOn(t) ==
    { k \in 1..Len(agg.generated_queries) : _guess_main_table(agg.generated_queries[k]) = t }

\* C26: for a promos or trips query a row that cannot be mapped to the typed summary is
\* dropped from related_promos / related_trips on its own: the other rows of the query
\* are mapped, the query is listed as executed, and the raw row is in
\* related_collections and has its narrative chunk.
C26_UnmappableRowDropped ==
    pc \in { "agg_loop", "agg_done" } =>
        LET promos == agg.related_collections["promos"]
            trips == agg.related_collections["trips"]
        IN  /\ agg.related_promos = MappablePromos(promos)
            /\ agg.related_trips = MappableTrips(trips)
            /\ SelectSeq(agg.chunks, IsPromoChunk) = [ k \in 1..Len(promos) |-> PromoChunk(promos[k]) ]
            /\ SelectSeq(agg.chunks, IsTripChunk) = [ k \in 1..Len(trips) |-> TripChunk(trips[k]) ]
            /\ promos # << >> => ListedOn("promos") # {}
            /\ trips # << >> => ListedOn("trips") # {}

\* one promos query returned three rows, the second of which cannot be mapped
C26_Witness ==
    /\ pc = "agg_done"
    /\ Len(agg.generated_queries) = 1
    /\ Len(agg.related_collections["promos"]) = 3
    /\ ~CanMap(agg.related_collections["promos"][2], PromoSummaryRequired)
    /\ Len(agg.related_promos) = 2
    /\ Len(SelectSeq(agg.chunks, IsPromoChunk)) = 3

\* the executed statements whose execution did not raise, in order, from position k on
RECURSIVE NotRaisedFrom(_)
NotRaisedFrom(k) ==
    IF k > Len(executed) THEN << >>
    ELSE (IF fetched[k] >= 0 THEN <<executed[k]>> ELSE << >>) \o NotRaisedFrom(k + 1)

\* rows returned by the executed statements from position k on whose main table is in T
RECURSIVE RowsFetchedFrom(_, _)
RowsFetchedFrom(k, T) ==
    IF k > Len(executed) THEN 0
    ELSE (IF fetched[k] > 0 /\ _guess_main_table(executed[k]) \in T THEN fetched[k] ELSE 0)
             + RowsFetchedFrom(k + 1, T)

\* C27: generated_queries is exactly the sequence, in proposal order, of the validated
\* queries whose execution did not raise; a validated query that returns zero rows is
\* listed there and adds nothing to related_collections, chunks or used_keys.
C27_GeneratedQueriesListed ==
    pc \in { "agg_loop", "agg_done" } =>
        /\ Len(fetched) = Len(executed)
        /\ pc = "agg_done" => executed = ValidatedOf(agg.ai_queries)
        /\ agg.generated_queries = NotRaisedFrom(1)
        /\ \A t \in AllTables : Len(agg.related_collections[t]) = RowsFetchedFrom(1, {t})
        /\ pc = "agg_loop" =>
               /\ Len(agg.chunks) = RowsFetchedFrom(1, AllTables)
               /\ Len(agg.used_keys) = Cardinality({ k \in 1..Len(fetched) : fetched[k] > 0 })

\* a batch of two validated queries: the first raised, the second returned no row
C27_Witness ==
    /\ pc = "agg_done"
    /\ fetched = << -1, 0 >>
    /\ agg.generated_queries = <<executed[2]>>
    /\ agg.related_collections = NoCollections
    /\ agg.chunks = << >>
    /\ agg.used_keys = << >>

\* C28: in the result of build_ai_aggregate every audit key is backed by content:
\* used_keys is non-empty only if chunks is non-empty, and the key bookings.mine.latest10
\* is present only if at least one booking of the user was found and turned into a chunk.
C28_KeysBackedByContent ==
    pc = "agg_done" =>
        /\ agg.used_keys # << >> => agg.chunks # << >>
        /\ "bookings.mine.latest10" \in Range(agg.used_keys) =>
               /\ agg.user_bookings # << >>
               /\ \E k \in 1..Len(agg.chunks) : IsBookingChunk(agg.chunks[k])

\* a caller of _ensure_init raises in this step
RaisesNow(c) == init_pc[c] # "raised" /\ init_pc'[c] = "raised"

\* the flag is set only once the client holds the configured, non-empty key
C29_FlagInv ==
    gemini.initialized => (gemini.configured # "" /\ gemini.configured = gemini.api_key)

\* C29: under any interleaving of concurrent requests calling _ensure_init, the
\* process-wide _initialized flag only ever goes from false to true, is true only after
\* the client has been configured with a non-empty API key, and a request that finds the
\* key missing raises without changing the flag; nothing else of the process-wide client
\* state changes.
C29_EnsureInitMonotone ==
    /\ []C29_FlagInv
    /\ [][/\ gemini.initialized => gemini'.initialized
          /\ gemini'.api_key = gemini.api_key
          /\ gemini'.proposal = gemini.proposal
          /\ gemini'.configured \in { gemini.configured, gemini.api_key }
          /\ \A c \in Callers :
                 RaisesNow(c) => (gemini.api_key = "" /\ gemini' = gemini)]_vars

\* two requests passed the flag test together and both configured the client
C29_Witness ==
    /\ gemini.initialized
    /\ \E c, d \in Callers : c # d /\ init_pc[c] = "returned" /\ init_pc[d] = "set_flag"

BookingAction == [ text |-> "Lihat detail booking terakhir Anda" ]

\* C30: the chat handler always calls build_ai_aggregate with user=None, so in every
\* response it produces user_bookings is empty, the key bookings.mine.latest10 never
\* appears and the action 'Lihat detail booking terakhir Anda' is never suggested, even
\* for a private-intent message whose booking code exists in the store.
C30_HandlerNeverReturnsBookings ==
    /\ agg.user = NoUser
    /\ pc = "done" =>
           /\ response.user_bookings = << >>
           /\ "bookings.mine.latest10" \notin Range(response.used_context_keys)
           /\ BookingAction \notin Range(response.suggested_actions)

\* a private request whose booking code exists passed the gates and was answered
C30_Witness ==
    /\ pc = "done"
    /\ intent = "private"
    /\ genCalls # << >>
    /\ RowExists(store, "bookings", "booking_code", _extract_booking_code(message, None))
    /\ response.user_bookings = << >>

====
